---- MODULE Spec2Model ----
(***************************************************************************)
(* Model of app.py of bsullins/ytscanner: the phrase matcher               *)
(* (search_phrase_in_text), the transcript search                          *)
(* (search_cached_transcripts) and the channel directory                   *)
(* (get_cached_channels).                                                  *)
(*                                                                         *)
(* A Python str is a sequence of one-character strings.  Positions in a    *)
(* token list are 1-based here and 0-based in the source; every use of a   *)
(* position in the source is a comparison or a difference of two           *)
(* positions, which the shift leaves unchanged.                            *)
(***************************************************************************)
EXTENDS Integers, Sequences, FiniteSets, TLC

VARIABLES
    pc,                 \* "ready" before the call, "done" after it
    phrase,             \* search_phrase_in_text: argument phrase
    text,               \* search_phrase_in_text: argument text
    max_word_distance,  \* search_phrase_in_text: argument max_word_distance
    result,             \* search_phrase_in_text: "True", "False" or the exception raised
    corpus,             \* transcripts_cache: the files in os.listdir order
    search_term,        \* search_cached_transcripts: argument search_term
    channel_name,       \* search_cached_transcripts: argument channel_name
    results,            \* search_cached_transcripts: the returned list
    error,              \* search_cached_transcripts: the exception that left it, or "none"
    channels            \* get_cached_channels: the returned directory

vars == <<pc, phrase, text, max_word_distance, result,
          corpus, search_term, channel_name, results, error, channels>>

-----------------------------------------------------------------------------
(* Bounds of the model *)

MaxRawLen == 3      \* longest character-level phrase / text
MaxTextWords == 5   \* most tokens in a token-level text
MaxPhraseWords == 3 \* most words in a token-level phrase
MaxGap == 1         \* largest max_word_distance tried

-----------------------------------------------------------------------------
(* Python str operations *)

SPACE == " "

Alphabet == {"a", "A", SPACE}

\* str.lower() on one character
LowerChar(c) == IF c = "A" THEN "a" ELSE c

\* str.lower()
Lower(s) == [i \in 1..Len(s) |-> LowerChar(s[i])]

\* sub in s, for two str
Contains(sub, s) ==
    \E i \in 0..(Len(s) - Len(sub)) : SubSeq(s, i + 1, i + Len(sub)) = sub

\* str.split(): the maximal runs of non-whitespace characters, in order
RECURSIVE SplitFrom(_, _, _)
SplitFrom(s, i, cur) ==
    IF i > Len(s)
    THEN IF cur = <<>> THEN <<>> ELSE <<cur>>
    ELSE IF s[i] = SPACE
         THEN (IF cur = <<>> THEN <<>> ELSE <<cur>>) \o SplitFrom(s, i + 1, <<>>)
         ELSE SplitFrom(s, i + 1, Append(cur, s[i]))

Split(s) == SplitFrom(s, 1, <<>>)

\* " ".join(words)
RECURSIVE Join(_)
Join(words) ==
    IF words = <<>> THEN <<>>
    ELSE IF Len(words) = 1 THEN words[1]
    ELSE words[1] \o <<SPACE>> \o Join(Tail(words))

\* str.strip()
RECURSIVE Strip(_)
Strip(s) ==
    IF s = <<>> THEN s
    ELSE IF s[1] = SPACE THEN Strip(Tail(s))
    ELSE IF s[Len(s)] = SPACE THEN Strip(SubSeq(s, 1, Len(s) - 1))
    ELSE s

PyBool(b) == IF b THEN "True" ELSE "False"

SetMin(S) == CHOOSE x \in S : \A y \in S : x <= y

-----------------------------------------------------------------------------
(* search_phrase_in_text *)

\* the single-word branch with word-aligned matching instead of substring
SingleWordMatchAligned(word, txt) ==
    \E i \in 1..Len(Split(Lower(txt))) : Split(Lower(txt))[i] = word

\* line 68: phrase_words[0] in text.lower()
SingleWordMatch(word, txt) == Contains(word, Lower(txt))

\* lines 75-78: the positions of the text tokens that contain phrase_word, ascending
Positions(phrase_word, text_words) ==
    {i \in 1..Len(text_words) : Contains(phrase_word, text_words[i])}

\* the gap test with the + 1 forgotten
WithinDistanceOffByOne(pos, last_found_pos, g) ==
    pos > last_found_pos /\ pos - last_found_pos <= g

\* the gap test with == in place of <=
WithinDistanceExact(pos, last_found_pos, g) ==
    pos > last_found_pos /\ pos - last_found_pos = g + 1

\* line 93: the test a candidate position must pass
WithinDistance(pos, last_found_pos, g) ==
    pos > last_found_pos /\ pos - last_found_pos <= g + 1

\* lines 92-96: the inner loop walks the ascending position list and breaks at
\* the first position that passes the test, i.e. the smallest one
FirstCandidate(cands) == SetMin(cands)

\* lines 90-100: extend the chain from last_found_pos over phrase_words[k..]
RECURSIVE ChainFrom(_, _, _, _, _)
ChainFrom(phrase_words, text_words, k, last_found_pos, g) ==
    IF k > Len(phrase_words) THEN TRUE
    ELSE LET cands == {pos \in Positions(phrase_words[k], text_words) :
                          WithinDistance(pos, last_found_pos, g)}
         IN  /\ cands # {}
             /\ ChainFrom(phrase_words, text_words, k + 1, FirstCandidate(cands), g)

\* lines 61-105
search_phrase_in_text(p, t, g) ==
    IF p = <<>> \/ t = <<>> THEN "False"
    ELSE LET phrase_words == Split(Lower(p)) IN
         IF Len(phrase_words) = 1 THEN PyBool(SingleWordMatch(phrase_words[1], t))
         ELSE LET text_words == Split(Lower(t)) IN
              IF \E k \in 1..Len(phrase_words) :
                     Positions(phrase_words[k], text_words) = {}
              THEN "False"
              ELSE IF phrase_words = <<>> THEN "IndexError"
              ELSE PyBool(\E start_pos \in Positions(phrase_words[1], text_words) :
                              ChainFrom(phrase_words, text_words, 2, start_pos, g))

-----------------------------------------------------------------------------
(* Inputs of the matcher *)

\* all sequences over S of length lo..hi
SeqsOf(S, lo, hi) == UNION {[1..n -> S] : n \in lo..hi}

\* character-level strings: mixed case, leading / trailing / repeated whitespace
RawStrings == SeqsOf(Alphabet, 0, MaxRawLen)

Vocabulary == {<<"a">>, <<"b">>, <<"a", "b">>}
PhraseVocabulary == {<<"a">>, <<"b">>}

\* token-level strings: words joined by single spaces
Texts == {Join(ws) : ws \in SeqsOf(Vocabulary, 0, MaxTextWords)}
Phrases == {Join(ws) : ws \in SeqsOf(PhraseVocabulary, 2, MaxPhraseWords)}

Gaps == 0..MaxGap

NoValue == "none"

InitMatch ==
    /\ pc = "ready"
    /\ \/ phrase \in RawStrings /\ text \in RawStrings
       \/ phrase \in Phrases /\ text \in Texts
    /\ max_word_distance \in Gaps
    /\ result = NoValue
    /\ corpus = <<>>
    /\ search_term = <<>>
    /\ channel_name = NoValue
    /\ results = <<>>
    /\ error = NoValue
    /\ channels = <<>>

\* one call of search_phrase_in_text(phrase, text, max_word_distance)
Match ==
    /\ pc = "ready"
    /\ result' = search_phrase_in_text(phrase, text, max_word_distance)
    /\ pc' = "done"
    /\ UNCHANGED <<phrase, text, max_word_distance,
                   corpus, search_term, channel_name, results, error, channels>>

NextMatch == Match

SpecMatch == InitMatch /\ [][NextMatch]_vars

-----------------------------------------------------------------------------
(* JSON values of the cache files *)

MISSING == "<missing>"      \* the key is absent from the mapping
NULL == "<null>"            \* JSON null, None in Python
NUMBER == "<number>"        \* a non-zero JSON number where a string is expected
NoFilter == "<None>"        \* channel_name=None, the default of the parameter
UnknownChannel == "Unknown Channel"
UnknownDate == "Unknown date"
MinDate == "0000-00-00"

\* line 61: the default of max_word_distance, used by the call of line 136
DefaultGap == 5

\* The strings compared by the sort, in Python's str order ('0' < '2' < 'U')
StrOrder == <<MinDate, "2023-05-01", "2024-01-01", UnknownDate>>
Rank(s) == CHOOSE i \in 1..Len(StrOrder) : StrOrder[i] = s
StrLess(a, b) == Rank(a) < Rank(b)

\* dict.get(key, default) on a string-valued key
Get(entry, key, default) == IF entry[key] = MISSING THEN default ELSE entry[key]

\* dict.get(key): None when the key is absent
GetOrNone(entry, key) == Get(entry, key, NULL)

\* line 139: entry.get('title', f'Video {video_id}')
GetTitle(entry, video_id) ==
    IF entry.title = <<MISSING>> THEN <<"Video", video_id>> ELSE entry.title

\* lines 136, 142: entry.get('text', '')
GetText(entry) == IF entry.text = <<MISSING>> THEN <<>> ELSE entry.text

-----------------------------------------------------------------------------
(* search_cached_transcripts *)

\* line 136: search_phrase_in_text(search_term, entry.get('text', '')).  None is
\* falsy (line 63); a number has no lower() (lines 68, 70).
MatchEntry(term, entry) ==
    LET txt == GetText(entry) IN
    IF term = <<>> \/ txt = <<NULL>> THEN "False"
    ELSE IF txt = <<NUMBER>> THEN "AttributeError"
    ELSE search_phrase_in_text(term, txt, DefaultGap)

\* lines 137-144
MakeHit(video_id, entry) ==
    [video_id     |-> video_id,
     title        |-> GetTitle(entry, video_id),
     channel_name |-> Get(entry, "channel_name", UnknownChannel),
     timestamp    |-> entry.start,
     text         |-> GetText(entry),
     published_at |-> Get(entry, "published_at", UnknownDate)]

\* the result built from the metadata of the record's first segment
MakeResultFromFirstSegment(video_id, data, video_matches) ==
    [video_id     |-> video_id,
     title        |-> GetTitle(data[1], video_id),
     channel_name |-> Get(data[1], "channel_name", UnknownChannel),
     published_at |-> Get(data[1], "published_at", UnknownDate),
     matches      |-> video_matches]

\* lines 147-153
MakeResult(video_id, data, video_matches) ==
    [video_id     |-> video_id,
     title        |-> video_matches[1].title,
     channel_name |-> video_matches[1].channel_name,
     published_at |-> video_matches[1].published_at,
     matches      |-> video_matches]

\* lines 135-144: the loop over the entries; an exception leaves it (line 155)
RECURSIVE ScanEntries(_, _, _, _, _)
ScanEntries(video_id, data, term, j, video_matches) ==
    IF j > Len(data) THEN [raised |-> FALSE, matches |-> video_matches]
    ELSE IF ~data[j].mapping THEN [raised |-> TRUE, matches |-> <<>>]
    ELSE LET m == MatchEntry(term, data[j]) IN
         IF m = "True"
         THEN ScanEntries(video_id, data, term, j + 1,
                          Append(video_matches, MakeHit(video_id, data[j])))
         ELSE IF m = "False"
         THEN ScanEntries(video_id, data, term, j + 1, video_matches)
         ELSE [raised |-> TRUE, matches |-> <<>>]

\* the length test letting records of two segments through
TooShortOffByOne(data) == Len(data) < 2

\* line 126: not data or len(data) <= 2
TooShort(data) == data = <<>> \/ Len(data) <= 2

\* line 130: channel_name and data[0].get('channel_name') != channel_name
\* (None and '' are falsy)
FilteredOut(filter, first) ==
    /\ filter \notin {NoFilter, ""}
    /\ GetOrNone(first, "channel_name") # filter

\* lines 122-156: what one file adds to results
PerFile(video_id, file, term, filter) ==
    IF ~file.ok THEN <<>>
    ELSE IF TooShort(file.data) THEN <<>>
    ELSE IF filter \notin {NoFilter, ""} /\ ~file.data[1].mapping THEN <<>>
    ELSE IF FilteredOut(filter, file.data[1]) THEN <<>>
    ELSE LET scan == ScanEntries(video_id, file.data, term, 1, <<>>) IN
         IF scan.raised \/ scan.matches = <<>> THEN <<>>
         ELSE <<MakeResult(video_id, file.data, scan.matches)>>

\* lines 116-156: the loop over the files, in os.listdir order
RECURSIVE Collect(_, _, _, _)
Collect(files, term, filter, i) ==
    IF i > Len(files) THEN <<>>
    ELSE PerFile(i, files[i], term, filter) \o Collect(files, term, filter, i + 1)

\* lines 159-162
sort_key(item) ==
    IF item.published_at = UnknownDate THEN MinDate ELSE item.published_at

\* one insertion of a stable descending sort: item goes behind every element
\* whose key is not smaller than its own
RECURSIVE InsertDesc(_, _)
InsertDesc(sorted, item) ==
    IF sorted = <<>> THEN <<item>>
    ELSE IF StrLess(sort_key(Head(sorted)), sort_key(item)) THEN <<item>> \o sorted
    ELSE <<Head(sorted)>> \o InsertDesc(Tail(sorted), item)

\* one insertion of a stable ascending sort
RECURSIVE InsertAsc(_, _)
InsertAsc(sorted, item) ==
    IF sorted = <<>> THEN <<item>>
    ELSE IF StrLess(sort_key(item), sort_key(Head(sorted))) THEN <<item>> \o sorted
    ELSE <<Head(sorted)>> \o InsertAsc(Tail(sorted), item)

RECURSIVE SortDescFrom(_, _, _)
SortDescFrom(items, i, sorted) ==
    IF i > Len(items) THEN sorted
    ELSE SortDescFrom(items, i + 1, InsertDesc(sorted, items[i]))

RECURSIVE SortAscFrom(_, _, _)
SortAscFrom(items, i, sorted) ==
    IF i > Len(items) THEN sorted
    ELSE SortAscFrom(items, i + 1, InsertAsc(sorted, items[i]))

Reverse(s) == [i \in 1..Len(s) |-> s[Len(s) + 1 - i]]

\* an ascending sort followed by a reversal: equal keys come out reversed
SortThenReverse(items) == Reverse(SortAscFrom(items, 1, <<>>))

\* line 164: results.sort(key=sort_key, reverse=True); list.sort is stable, also
\* with reverse=True
SortReverse(items) == SortDescFrom(items, 1, <<>>)

\* line 164: the sort compares the keys of two items; None against a str or None
\* raises TypeError, outside the try of lines 122-156
SortRaises(items) ==
    Len(items) >= 2 /\ \E i \in 1..Len(items) : sort_key(items[i]) = NULL

\* lines 107-165
search_cached_transcripts(term, filter, files) ==
    LET collected == Collect(files, term, filter, 1) IN
    IF SortRaises(collected)
    THEN [error |-> "TypeError", results |-> <<>>]
    ELSE [error |-> NoValue, results |-> SortReverse(collected)]

-----------------------------------------------------------------------------
(* get_cached_channels and main *)

\* lines 25-34: the file is counted
Counted(file) == file.ok /\ Len(file.data) > 2 /\ file.data[1].mapping

\* line 29
DirectoryName(file) == Get(file.data[1], "channel_name", UnknownChannel)

\* lines 14-36
get_cached_channels(files) ==
    LET counted == {i \in 1..Len(files) : Counted(files[i])}
        names == {DirectoryName(files[i]) : i \in counted}
    IN  [c \in names |-> Cardinality({i \in counted : DirectoryName(files[i]) = c})]

\* lines 304-314: the option f"{channel} ({count} videos)" cut at its first ' (';
\* the names of the model hold no ' (', and None is formatted as 'None'
SelectedChannel(c) == IF c = NULL THEN "None" ELSE c

-----------------------------------------------------------------------------
(* Inputs of the search *)

MaxFiles == 2       \* most files in transcripts_cache

\* one segment of a cache file
Segment(txt, j, chan, date) ==
    [mapping      |-> TRUE,
     text         |-> txt,
     title        |-> IF chan = MISSING THEN <<MISSING>> ELSE <<"Title", j>>,
     channel_name |-> chan,
     start        |-> 10 * j,
     published_at |-> date]

T_b == <<"b">>
T_ab == <<"a", " ", "b">>
T_ba == <<"b", " ", "a">>
\* a and b with five words between them, and with six
T_gap5 == Join(<<<<"a">>, <<"c">>, <<"c">>, <<"c">>, <<"c">>, <<"c">>, <<"b">>>>)
T_gap6 == Join(<<<<"a">>, <<"c">>, <<"c">>, <<"c">>, <<"c">>, <<"c">>, <<"c">>, <<"b">>>>)

\* the texts of the segments of one record
Patterns ==
    {<<T_b, T_gap5, T_b, T_ab>>, <<T_ab, T_b>>, <<T_gap6, <<"a">>, T_ba>>}

FirstChannels == {"Test", MISSING}
FirstDates == {"2024-01-01", MISSING}

\* a well-formed record: its first segment carries the given channel and date (or
\* lacks them), the later ones a snapshot of their own
Record(pattern, chan, date) ==
    [ok   |-> TRUE,
     data |-> [j \in 1..Len(pattern) |->
                  IF j = 1 THEN Segment(pattern[j], j, chan, date)
                  ELSE Segment(pattern[j], j, "Test", "2023-05-01")]]

Records == {Record(p, c, d) : p \in Patterns, c \in FirstChannels, d \in FirstDates}

Queries == {T_ab, T_b, <<SPACE>>}
Filters == {NoFilter, "Test", "test", UnknownChannel}

InitSearch(records) ==
    /\ pc = "ready"
    /\ corpus \in SeqsOf(records, 0, MaxFiles)
    /\ search_term \in Queries
    /\ channel_name \in Filters
    /\ results = <<>>
    /\ error = NoValue
    /\ channels = <<>>
    /\ phrase = <<>>
    /\ text = <<>>
    /\ max_word_distance = DefaultGap
    /\ result = NoValue

Init == InitSearch(Records)

\* a direct call of search_cached_transcripts(search_term, channel_name)
Search ==
    /\ pc = "ready"
    /\ LET r == search_cached_transcripts(search_term, channel_name, corpus) IN
          results' = r.results /\ error' = r.error
    /\ pc' = "done"
    /\ UNCHANGED <<phrase, text, max_word_distance, result,
                   corpus, search_term, channel_name, channels>>

\* main, line 297: channels = get_cached_channels()
GetCachedChannels ==
    /\ pc = "ready"
    /\ channel_name = NoFilter
    /\ channels' = get_cached_channels(corpus)
    /\ pc' = "listed"
    /\ UNCHANGED <<phrase, text, max_word_distance, result,
                   corpus, search_term, channel_name, results, error>>

\* main, lines 299-325: the user picks a listed channel and searches in it
MainSearch ==
    /\ pc = "listed"
    /\ channels # <<>>
    /\ search_term # <<>>
    /\ \E c \in DOMAIN channels :
          /\ channel_name' = SelectedChannel(c)
          /\ LET r == search_cached_transcripts(search_term, SelectedChannel(c), corpus) IN
                results' = r.results /\ error' = r.error
    /\ pc' = "main_done"
    /\ UNCHANGED <<phrase, text, max_word_distance, result,
                   corpus, search_term, channels>>

Next == Search \/ GetCachedChannels \/ MainSearch

Spec == Init /\ [][Next]_vars

-----------------------------------------------------------------------------
(* Cache files with malformed content *)

Unparsable == [ok |-> FALSE, data |-> <<>>]

\* the record with the entries at the positions js replaced by a JSON string
WithNonMapping(rec, js) ==
    [rec EXCEPT !.data = [j \in 1..Len(rec.data) |->
        IF j \in js THEN [rec.data[j] EXCEPT !.mapping = FALSE] ELSE rec.data[j]]]

\* the record with the field key of the entries at the positions js set to v
WithField(rec, js, key, v) ==
    [rec EXCEPT !.data = [j \in 1..Len(rec.data) |->
        IF j \in js THEN [rec.data[j] EXCEPT ![key] = v] ELSE rec.data[j]]]

Sample == Record(<<T_b, T_gap5, T_b, T_ab>>, "Test", "2024-01-01")

MalformedRecords ==
    {Unparsable,
     WithNonMapping(Sample, {3}),
     WithField(Sample, {1, 2, 3, 4}, "published_at", NULL),
     WithField(Sample, {3}, "text", <<NUMBER>>),
     WithField(Sample, {1}, "text", <<NULL>>),
     WithField(Sample, {1}, "channel_name", NULL)}

InitMalformed ==
    InitSearch(MalformedRecords \cup {Sample, Record(<<T_ab, T_b, T_b>>, MISSING, MISSING)})

SpecMalformed == InitMalformed /\ [][Next]_vars

-----------------------------------------------------------------------------
(* Properties of the matcher, checked under SpecMatch *)

PhraseWords == Split(Lower(phrase))
TextWords == Split(Lower(text))

\* a chain q1 < q2 < ... of text positions for phrase words k.., any choice allowed
RECURSIVE AnyChainFrom(_, _, _, _, _)
AnyChainFrom(pw, tw, k, last, g) ==
    IF k > Len(pw) THEN TRUE
    ELSE \E q \in 1..Len(tw) :
            /\ Contains(pw[k], tw[q])
            /\ q > last
            /\ q - last <= g + 1
            /\ AnyChainFrom(pw, tw, k + 1, q, g)

AnyChain(pw, tw, g) ==
    \E q \in 1..Len(tw) : Contains(pw[1], tw[q]) /\ AnyChainFrom(pw, tw, 2, q, g)

\* the phrase words sit on the adjacent tokens k, k+1, ...
AdjacentAt(pw, tw, k) ==
    \A i \in 1..Len(pw) : k + i - 1 <= Len(tw) /\ Contains(pw[i], tw[k + i - 1])

\* C1 as stated: a single-word phrase w matches exactly when lower-cased w is a
\* substring of the lower-cased text.
C1_AsStated ==
    (pc = "done" /\ Len(PhraseWords) = 1)
        => result = PyBool(Contains(Lower(phrase), Lower(text)))

\* C1 amended: a single-word phrase matches exactly when the phrase with its
\* surrounding whitespace removed, lower-cased, is a substring of the lower-cased
\* text (word boundaries of the text play no part).
C1_SingleWordSubstring ==
    (pc = "done" /\ Len(PhraseWords) = 1)
        => result = PyBool(Contains(Lower(Strip(phrase)), Lower(text)))

\* a padded, mixed-case one-word phrase found inside a longer text token
C1_Witness ==
    /\ pc = "done"
    /\ Len(PhraseWords) = 1
    /\ phrase # Strip(phrase)
    /\ phrase # Lower(phrase)
    /\ result = "True"
    /\ \A i \in 1..Len(TextWords) : TextWords[i] # PhraseWords[1]

\* C2: a multi-word phrase matches if and only if some chain of text positions
\* q1 < ... < qn exists with each phrase word a substring of its token and
\* consecutive positions at most max_word_distance + 1 apart.
C2_AnyChainIff ==
    (pc = "done" /\ Len(PhraseWords) >= 2)
        => (result = "True" <=> AnyChain(PhraseWords, TextWords, max_word_distance))

\* C3: a match at gap g1 is a match at every gap g2 >= g1.
C3_GapMonotone ==
    (pc = "done" /\ result = "True")
        => \A g2 \in max_word_distance..(MaxGap + 1) :
               search_phrase_in_text(phrase, text, g2) = "True"

\* a phrase that repeats a word matches at gap 1 and not at gap 0, in a text
\* where its first word occurs more than once
C3_Witness ==
    /\ pc = "done"
    /\ result = "True"
    /\ max_word_distance = 1
    /\ Len(PhraseWords) >= 3
    /\ PhraseWords[1] = PhraseWords[3]
    /\ Cardinality(Positions(PhraseWords[1], TextWords)) >= 2
    /\ search_phrase_in_text(phrase, text, 0) = "False"

\* C4: a multi-word phrase whose words sit in order on adjacent text tokens
\* matches at every max_word_distance >= 0.
C4_AdjacentMatches ==
    (/\ pc = "done"
     /\ Len(PhraseWords) >= 2
     /\ \E k \in 1..Len(TextWords) : AdjacentAt(PhraseWords, TextWords, k))
        => result = "True"

\* adjacency at k with max_word_distance 0, after an earlier occurrence of the
\* first phrase word that does not extend to a chain
C4_Witness ==
    /\ pc = "done"
    /\ result = "True"
    /\ max_word_distance = 0
    /\ Len(PhraseWords) >= 2
    /\ \E k \in 1..Len(TextWords) :
          /\ AdjacentAt(PhraseWords, TextWords, k)
          /\ \E s \in Positions(PhraseWords[1], TextWords) :
                s < k /\ ~ChainFrom(PhraseWords, TextWords, 2, s, 0)

\* C5: the call always ends with a boolean, never an exception, and the boolean is
\* false when the phrase or the text is empty.
C5_TotalFailsClosed ==
    pc = "done"
        => /\ result \in {"True", "False"}
           /\ (phrase = <<>> \/ text = <<>>) => result = "False"

-----------------------------------------------------------------------------
(* Properties of the search, checked under Spec and SpecMalformed *)

Searched == pc \in {"done", "main_done"}

\* the segment is a hit of the query at the default gap of five words
IsHit(entry) == search_phrase_in_text(search_term, entry.text, 5) = "True"

HitIndexes(data) == {j \in 1..Len(data) : IsHit(data[j])}

\* the m-th smallest element of a set of positions
Nth(S, m) == CHOOSE j \in S : Cardinality({x \in S : x <= j}) = m

\* the record of file i is to contribute a VideoResult
Contributes(i) ==
    LET data == corpus[i].data IN
    /\ Len(data) > 2
    /\ channel_name = NoFilter \/ data[1].channel_name = channel_name
    /\ HitIndexes(data) # {}

ResultsOf(i) == {k \in 1..Len(results) : results[k].video_id = i}

HitOf(video_id, entry) ==
    [video_id     |-> video_id,
     title        |-> IF entry.title = <<MISSING>> THEN <<"Video", video_id>> ELSE entry.title,
     channel_name |-> IF entry.channel_name = MISSING THEN "Unknown Channel"
                      ELSE entry.channel_name,
     timestamp    |-> entry.start,
     text         |-> entry.text,
     published_at |-> IF entry.published_at = MISSING THEN "Unknown date"
                      ELSE entry.published_at]

\* C7: the match list of every VideoResult is the subsequence of the record's
\* segments that match at gap 5, in segment order, each hit with its segment's own
\* metadata, and the VideoResult carries the metadata of the first hit.
C7_MatchList ==
    Searched =>
        \A k \in 1..Len(results) :
            LET r == results[k]
                data == corpus[r.video_id].data
                idx == HitIndexes(data)
                first == HitOf(r.video_id, data[Nth(idx, 1)])
            IN  /\ Len(r.matches) = Cardinality(idx)
                /\ \A m \in 1..Len(r.matches) :
                      r.matches[m] = HitOf(r.video_id, data[Nth(idx, m)])
                /\ r.title = first.title
                /\ r.channel_name = first.channel_name
                /\ r.published_at = first.published_at

\* several hits with a miss between them, the first hit not the first segment,
\* whose metadata differs from the first hit's
C7_Witness ==
    /\ pc = "done"
    /\ \E k \in 1..Len(results) :
          LET r == results[k]
              data == corpus[r.video_id].data
          IN  /\ Len(r.matches) >= 2
              /\ r.matches[1].timestamp # data[1].start
              /\ r.matches[2].timestamp > r.matches[1].timestamp + 10
              /\ data[1].channel_name = MISSING
              /\ data[1].published_at # r.published_at

\* the key the results are ordered by
KeyOf(r) == IF r.published_at = "Unknown date" THEN "0000-00-00" ELSE r.published_at

\* C8: the results are in descending order of the key, results with equal keys in
\* corpus order, and no result with an unknown date precedes one with a known date.
C8_StableDescending ==
    Searched =>
        \A i, j \in 1..Len(results) :
            i < j =>
                /\ Rank(KeyOf(results[i])) >= Rank(KeyOf(results[j]))
                /\ KeyOf(results[i]) = KeyOf(results[j])
                       => results[i].video_id < results[j].video_id
                /\ ~(/\ results[i].published_at = "Unknown date"
                     /\ results[j].published_at # "Unknown date")

\* two results with unknown dates, in corpus order
C8_Witness ==
    /\ pc = "done"
    /\ Len(results) = 2
    /\ results[1].published_at = "Unknown date"
    /\ results[2].published_at = "Unknown date"
    /\ results[1].video_id = 1

\* the file is malformed: unreadable, an entry that is no mapping, or a text,
\* channel or publish date that is missing, null or no string
Malformed(file) ==
    \/ ~file.ok
    \/ \E j \in 1..Len(file.data) :
          \/ ~file.data[j].mapping
          \/ file.data[j].text \in {<<MISSING>>, <<NULL>>, <<NUMBER>>}
          \/ file.data[j].channel_name \in {MISSING, NULL}
          \/ file.data[j].published_at \in {MISSING, NULL}

\* the corpus with every malformed file emptied, so that the others keep their place
WithoutMalformed(files) ==
    [i \in 1..Len(files) |-> IF Malformed(files[i]) THEN Unparsable ELSE files[i]]

\* C9: the search raises nothing, and what it returns for the records that are not
\* malformed is what it returns for the corpus without the malformed records.
C9_MalformedSkipped ==
    Searched =>
        LET OfSoundRecord(r) == ~Malformed(corpus[r.video_id]) IN
        /\ error = NoValue
        /\ SelectSeq(results, OfSoundRecord)
               = search_cached_transcripts(search_term, channel_name,
                                           WithoutMalformed(corpus)).results

\* the records the search keeps as eligible under the channel filter c
EligibleUnder(c) ==
    {i \in 1..Len(corpus) :
        /\ corpus[i].ok
        /\ ~TooShort(corpus[i].data)
        /\ corpus[i].data[1].mapping
        /\ ~FilteredOut(c, corpus[i].data[1])}

\* the records the directory counts under the channel c
CountedUnder(c) ==
    {i \in 1..Len(corpus) : Counted(corpus[i]) /\ DirectoryName(corpus[i]) = c}

\* C10: every listed channel c has as its count the number of records the search
\* keeps under the filter c, those records are the ones counted under c, and a
\* search in a listed channel for a query that matches a segment of one of its
\* counted records returns something.
C10_DirectoryAgrees ==
    /\ pc = "listed" =>
          \A c \in DOMAIN channels :
              /\ EligibleUnder(SelectedChannel(c)) = CountedUnder(c)
              /\ Cardinality(EligibleUnder(SelectedChannel(c))) = channels[c]
    /\ pc = "main_done" =>
          \A c \in DOMAIN channels :
              (/\ SelectedChannel(c) = channel_name
               /\ \E i \in CountedUnder(c) : HitIndexes(corpus[i].data) # {})
                  => results # <<>>

====
